---- MODULE Spec2Model ----
\* Verification decision pipeline of idyntra-backend:
\* app/services/verification_service.py and the detectors of app/core it
\* sequences, together with the /api/v1/verify endpoint that serialises the
\* verdict through the VerificationResponse schema.
EXTENDS Integers, Sequences, FiniteSets, TLC

\* ------------------------------------------------------------------
\* Numbers.  Python floats are modelled as exact fixed-point rationals:
\* the real x is the integer x * ONE.  ONE is divisible by 6 (liveness
\* scores are k/6), by 1000 and by the weights' denominators, so every
\* product the code forms below is an exact integer.
\* ------------------------------------------------------------------
ONE == 6 * 1000

Pct(p) == p * ONE

\* Bounds of the model
MaxDistance == 6

GrayLen == 3

\* settings.MAX_REQUESTS_PER_MINUTE, reduced
MaxRequestsPerMinute == 2

\* Requests served at the same time
MaxRequests == 2

\* Python dict values: a record; a key whose value is None is listed in the
\* record's field `nulls` (and has no field of its own); a key that is absent
\* from the dict is absent from the record and from `nulls`.
IsNone(d, k) == k \in d.nulls

\* dict.get(k, default) for a key that is not None-valued
Get(d, k, default) == IF k \in DOMAIN d THEN d[k] ELSE default

\* ------------------------------------------------------------------
\* Images.  An image is what the detectors can observe of it: its shape
\* (rows, columns) and the face regions (top, right, bottom, left) the
\* face library lists for it, in the library's order.
\* ------------------------------------------------------------------
ImageShape == <<480, 640>>

SmallFace == <<100, 420, 300, 220>>

BigFace == <<10, 630, 470, 10>>

Images ==
    { [shape |-> ImageShape, faces |-> <<>>],
      [shape |-> ImageShape, faces |-> <<SmallFace>>],
      [shape |-> ImageShape, faces |-> <<BigFace>>],
      [shape |-> ImageShape, faces |-> <<SmallFace, BigFace>>] }

\* face_recognition.face_locations(image, model='hog')
face_locations(image) == image.faces

\* ------------------------------------------------------------------
\* ImageSimilarityDetector.are_images_too_similar
\* `threshold` is self.similarity_threshold; `scores` are the four
\* estimators' values, or <<>> when anything in the try block raised.
\* ------------------------------------------------------------------
similarity_threshold == (95 * ONE) \div 100

SimilarityFailOpen ==
    [is_duplicate |-> FALSE, similarity_score |-> 0, error |-> "exception",
     passed |-> TRUE, nulls |-> {}]

\* A variant that fails closed: a fault inside the gate reports a duplicate
are_images_too_similar_FailClosed(threshold, scores) ==
    IF scores = <<>>
    THEN [SimilarityFailOpen EXCEPT !.is_duplicate = TRUE, !.passed = FALSE]
    ELSE LET combined_score == (scores[1] * 40 + scores[2] * 25
                                + scores[3] * 20 + scores[4] * 15) \div 100
             is_duplicate == combined_score >= threshold
         IN [is_duplicate |-> is_duplicate,
             similarity_score |-> combined_score,
             details |-> scores,
             method |-> "multi-method",
             passed |-> ~is_duplicate,
             threshold_used |-> threshold,
             nulls |-> {}]

\* A variant whose comparison with the threshold is strict
are_images_too_similar_Strict(threshold, scores) ==
    IF scores = <<>>
    THEN SimilarityFailOpen
    ELSE LET combined_score == (scores[1] * 40 + scores[2] * 25
                                + scores[3] * 20 + scores[4] * 15) \div 100
             is_duplicate == combined_score > threshold
         IN [is_duplicate |-> is_duplicate,
             similarity_score |-> combined_score,
             details |-> scores,
             method |-> "multi-method",
             passed |-> ~is_duplicate,
             threshold_used |-> threshold,
             nulls |-> {}]

are_images_too_similar(threshold, scores) ==
    IF scores = <<>>
    THEN SimilarityFailOpen
    ELSE LET combined_score == (scores[1] * 40 + scores[2] * 25
                                + scores[3] * 20 + scores[4] * 15) \div 100
             is_duplicate == combined_score >= threshold
         IN [is_duplicate |-> is_duplicate,
             similarity_score |-> combined_score,
             details |-> scores,
             method |-> "multi-method",
             passed |-> ~is_duplicate,
             threshold_used |-> threshold,
             nulls |-> {}]

\* The resized grey-level images the estimators compare, as short rows of
\* black and white pixels.
GrayImages == [1..GrayLen -> {0, 255}]

RECURSIVE SumAbsDiff(_, _, _)
SumAbsDiff(img1, img2, i) ==
    IF i > Len(img1) THEN 0
    ELSE (IF img1[i] >= img2[i] THEN img1[i] - img2[i]
          ELSE img2[i] - img1[i]) + SumAbsDiff(img1, img2, i + 1)

\* pixel_similarity = 1 - mean(|img1 - img2|) / 255
PixelSimilarity(img1, img2) ==
    ONE - (SumAbsDiff(img1, img2, 1) * ONE) \div (Len(img1) * 255)

\* _perceptual_hash: diff = resized[:, 1:] > resized[:, :-1], flattened
perceptual_hash(image) ==
    [i \in 1..(Len(image) - 1) |-> image[i + 1] > image[i]]

\* hash_similarity = 1 - sum(hash1 != hash2) / len(hash1)
HashSimilarity(img1, img2) ==
    LET hash1 == perceptual_hash(img1)
        hash2 == perceptual_hash(img2)
    IN ONE - (Cardinality({i \in DOMAIN hash1 : hash1[i] # hash2[i]}) * ONE)
                 \div Len(hash1)

\* What skimage's ssim and cv2.compareHist(..., HISTCMP_CORREL) can
\* report for two images: 1 for an image and itself, otherwise a value of
\* [-1, 1] that is the library's to choose.
LibraryScores(img1, img2) ==
    IF img1 = img2 THEN {ONE} ELSE {0 - ONE \div 2, ONE \div 2, ONE}

\* The four estimators of lines 49-68, given the two library values
Estimators(img1, img2, ssim_score, hist_score) ==
    <<ssim_score, hist_score, PixelSimilarity(img1, img2),
      HashSimilarity(img1, img2)>>

\* Estimator outcomes the pipeline is run on: <<ssim, histogram,
\* pixel_similarity, hash_similarity>>, or <<>> for a fault inside the gate.
SimilarityCases ==
    { <<>>,
      <<ONE, ONE, ONE, ONE>>,
      <<ONE \div 2, ONE \div 2, (3 * ONE) \div 4, ONE \div 2>> }

\* ------------------------------------------------------------------
\* DocumentStructureDetector.detect_document_structure
\* `detected` is the set of sub-detectors whose verdict is true.
\* ------------------------------------------------------------------
Detectors == <<"card_edges", "text_regions", "security_features",
               "photo_region", "proportions">>

\* A variant with the weights 0.30 / 0.30 / 0.20 / 0.15 / 0.10
DetectorWeight_Heavier(name) ==
    CASE name = "card_edges" -> (30 * ONE) \div 100
      [] name = "text_regions" -> (30 * ONE) \div 100
      [] name = "security_features" -> (20 * ONE) \div 100
      [] name = "photo_region" -> (15 * ONE) \div 100
      [] name = "proportions" -> (10 * ONE) \div 100

DetectorWeight(name) ==
    CASE name = "card_edges" -> (30 * ONE) \div 100
      [] name = "text_regions" -> (25 * ONE) \div 100
      [] name = "security_features" -> (20 * ONE) \div 100
      [] name = "photo_region" -> (15 * ONE) \div 100
      [] name = "proportions" -> (10 * ONE) \div 100

RECURSIVE SumScores(_, _, _)
SumScores(detected, i, acc) ==
    IF i > Len(Detectors) THEN acc
    ELSE SumScores(detected, i + 1,
                   IF Detectors[i] \in detected
                   THEN acc + DetectorWeight(Detectors[i]) ELSE acc)

min_confidence == (25 * ONE) \div 100

detect_document_structure(detected) ==
    LET confidence == SumScores(detected, 1, 0)
        has_document == confidence >= min_confidence
    IN [has_document |-> has_document,
        confidence |-> confidence,
        features_detected |-> detected,
        passed |-> has_document,
        threshold_used |-> min_confidence,
        nulls |-> {}]

StructureCases ==
    { {},
      {"security_features"},
      {"photo_region", "proportions"},
      {"card_edges", "text_regions", "security_features", "photo_region",
       "proportions"} }

\* ------------------------------------------------------------------
\* DocumentStructureDetector.is_just_a_face
\* ------------------------------------------------------------------
FaceArea(f) == (f[3] - f[1]) * (f[2] - f[4])

\* max(face_locations, key=area): the first region of maximal area
RECURSIVE LargestFrom(_, _, _)
LargestFrom(faces, i, best) ==
    IF i > Len(faces) THEN best
    ELSE LargestFrom(faces, i + 1,
                     IF FaceArea(faces[i]) > FaceArea(best)
                     THEN faces[i] ELSE best)

LargestFace(faces) == LargestFrom(faces, 2, faces[1])

is_just_a_face(image, lib_ok) ==
    IF ~lib_ok
    THEN [is_just_face |-> FALSE, error |-> "exception", passed |-> TRUE,
          nulls |-> {}]
    ELSE IF face_locations(image) = <<>>
    THEN [is_just_face |-> FALSE, reason |-> "no face detected", nulls |-> {}]
    ELSE LET largest_face == LargestFace(face_locations(image))
             face_area == FaceArea(largest_face)
             image_area == image.shape[1] * image.shape[2]
             is_just_face == face_area * 100 > 60 * image_area
         IN [is_just_face |-> is_just_face,
             face_area_ratio |-> (face_area * ONE) \div image_area,
             passed |-> ~is_just_face,
             nulls |-> {}]

\* ------------------------------------------------------------------
\* LivenessDetector.check
\* ------------------------------------------------------------------
LIVENESS_SCORE_MIN == (55 * ONE) \div 100

face_size_min == 80

face_size_max == 800

\* The five pixel-statistics sub-checks, in the order of self._checks; what
\* each computes is a property of the image, given as an outcome
\* "pass" | "fail" | "raise".
PixelChecks == <<"_check_blur", "_detect_specular_reflections",
                 "_analyze_micro_texture", "_detect_print_attack",
                 "_estimate_depth_cues">>

ScoreKey(name) ==
    CASE name = "_check_blur" -> "blur_score"
      [] name = "_detect_specular_reflections" -> "reflection_score"
      [] name = "_analyze_micro_texture" -> "micro_texture_score"
      [] name = "_detect_print_attack" -> "high_freq_energy"
      [] name = "_estimate_depth_cues" -> "depth_score"

\* The except branch of the loop over self._checks
CheckRaised == [passed |-> FALSE, error |-> "exception", scores |-> {}]

PixelCheck(name, outcome) ==
    IF outcome = "raise" THEN CheckRaised
    ELSE [passed |-> (outcome = "pass"), scores |-> {ScoreKey(name)}]

\* A Python value handed to a sub-check: what unpacking it into four names
\* sees.  An image unpacks into its rows (numpy arrays), a face region into
\* its four integers.
ImageArg(image) == [len |-> image.shape[1], is_array |-> TRUE, box |-> <<>>]

BoxArg(box) == [len |-> 4, is_array |-> FALSE, box |-> box]

\* _check_face_proportions(self, face_location, image_shape): unpacks its
\* first argument into top, right, bottom, left and compares sizes.
\* Unpacking anything but four items raises ValueError, and so does the
\* chained comparison when the items are arrays.  The result is the dict
\* returned, or CheckRaised when the body raised.
check_face_proportions(face_location, image_shape) ==
    IF face_location.len # 4 \/ face_location.is_array
    THEN CheckRaised
    ELSE LET top == face_location.box[1]
             right == face_location.box[2]
             bottom == face_location.box[3]
             left == face_location.box[4]
             face_width == right - left
             face_height == bottom - top
             size_valid == /\ face_size_min < face_width
                           /\ face_width < face_size_max
                           /\ face_size_min < face_height
                           /\ face_height < face_size_max
         IN [passed |-> size_valid, scores |-> {}]

\* The loop `for check_fn in self._checks: check_fn(image, face_location)`:
\* every sub-check, the proportions check included, is called with the
\* image first and the face region second.
\* A variant that leaves a raising sub-check out of the results
RunChecks_SkipRaised(image, face_location, outcomes) ==
    [name \in {PixelChecks[i] : i \in 1..Len(PixelChecks)}
              \ {n \in DOMAIN outcomes : outcomes[n] = "raise"} |->
        PixelCheck(name, outcomes[name])]

RunChecks(image, face_location, outcomes) ==
    [name \in {PixelChecks[i] : i \in 1..Len(PixelChecks)}
              \cup {"_check_face_proportions"} |->
        IF name = "_check_face_proportions"
        THEN check_face_proportions(ImageArg(image), BoxArg(face_location))
        ELSE PixelCheck(name, outcomes[name])]

CountPassed(results) == Cardinality({n \in DOMAIN results : results[n].passed})

\* face_location = face_locations[0]: the region check() hands to the
\* sub-checks when none is supplied
liveness_face_location(image) == face_locations(image)[1]

\* A variant that scores the sub-checks on the whole image when the
\* library lists no face
LivenessCheck_WholeImage(threshold, image, lib_ok, outcomes) ==
    IF ~lib_ok THEN [raised |-> TRUE, nulls |-> {}]
    ELSE LET results == [name \in DOMAIN outcomes |->
                            PixelCheck(name, outcomes[name])]
             liveness_score ==
                 (CountPassed(results) * ONE) \div Cardinality(DOMAIN results)
         IN [is_live |-> liveness_score >= threshold,
             liveness_score |-> liveness_score,
             checks_passed |-> <<CountPassed(results),
                                 Cardinality(DOMAIN results)>>,
             checks |-> results,
             confidence |-> "low",
             nulls |-> {}]

\* LivenessDetector.check(image) with face_location=None, for a detector
\* whose config.liveness_score_threshold is `threshold`.  Returns the
\* dict, or [raised |-> TRUE] when the face library call raised (it is
\* outside every try block).
LivenessCheck(threshold, image, lib_ok, outcomes) ==
    IF ~lib_ok THEN [raised |-> TRUE, nulls |-> {}]
    ELSE IF face_locations(image) = <<>>
    THEN [is_live |-> FALSE, liveness_score |-> 0,
          error |-> "No face detected",
          checks |-> [n \in {} |-> CheckRaised], nulls |-> {}]
    ELSE LET face_location == liveness_face_location(image)
             results == RunChecks(image, face_location, outcomes)
             checks_passed == CountPassed(results)
             total_checks == Cardinality(DOMAIN results)
             liveness_score == IF total_checks > 0
                               THEN (checks_passed * ONE) \div total_checks
                               ELSE 0
         IN [is_live |-> liveness_score >= threshold,
             liveness_score |-> liveness_score,
             checks_passed |-> <<checks_passed, total_checks>>,
             checks |-> results,
             confidence |-> IF liveness_score * 10 > 8 * ONE THEN "high"
                            ELSE IF liveness_score * 100 > 65 * ONE
                                 THEN "medium" ELSE "low",
             nulls |-> {}]

\* Sub-check outcomes the pipeline is run on: the first n pixel checks
\* pass and the rest fail, or the first one raises.
FirstPass(n) ==
    [name \in {PixelChecks[i] : i \in 1..Len(PixelChecks)} |->
        IF \E i \in 1..n : PixelChecks[i] = name THEN "pass" ELSE "fail"]

LivenessCases ==
    { FirstPass(n) : n \in {0, 3, 5} }
    \cup { [FirstPass(5) EXCEPT !["_check_blur"] = "raise"] }

\* ------------------------------------------------------------------
\* DeepfakeDetector.detect
\* `out` is <<label, probability of the predicted class>> of the
\* two-class softmax, or <<>> when the try block raised.
\* ------------------------------------------------------------------
\* A variant that raises when the model is not loaded
DeepfakeDetect_Raises(available, out) ==
    IF ~available
    THEN [raised |-> TRUE, nulls |-> {}]
    ELSE IF out = <<>>
    THEN [is_real |-> TRUE, confidence |-> ONE \div 2, error |-> "exception",
          model_available |-> FALSE, nulls |-> {}]
    ELSE [is_real |-> (out[1] = "Real"), confidence |-> out[2],
          label |-> out[1], model_available |-> TRUE, nulls |-> {}]

DeepfakeDetect(available, out) ==
    IF ~available
    THEN [is_real |-> TRUE, confidence |-> ONE \div 2,
          model_available |-> FALSE, nulls |-> {}]
    ELSE IF out = <<>>
    THEN [is_real |-> TRUE, confidence |-> ONE \div 2, error |-> "exception",
          model_available |-> FALSE, nulls |-> {}]
    ELSE [is_real |-> (out[1] = "Real"), confidence |-> out[2],
          label |-> out[1], model_available |-> TRUE, nulls |-> {}]

DeepfakeCases ==
    { <<>> } \cup
    { <<l, c>> : l \in {"Real", "Fake"}, c \in {(3 * ONE) \div 4, ONE} }

\* ------------------------------------------------------------------
\* DocumentAuthenticator.check_authenticity
\* `tamper` is the outcome of _detect_tampering: "clean" | "tampered" |
\* "error".  `structured_data` is the optional dict (a record); None and
\* the empty dict, both falsy, are NoData.  A date string in it is given
\* by what the code asks of it: whether it has eight characters, whether
\* strptime parses it, and the whole days between it and now (now - date
\* for a birth date, date - now for an expiry date).
\* ------------------------------------------------------------------
AUTHENTICITY_SCORE_MIN == 50

NoData == [k \in {} |-> 0]

detect_tampering(tamper) ==
    CASE tamper = "clean" ->
            [is_tampered |-> FALSE, passed |-> TRUE, scores |-> {"uniformity"}]
      [] tamper = "tampered" ->
            [is_tampered |-> TRUE, passed |-> FALSE, scores |-> {"uniformity"}]
      [] OTHER ->
            [is_tampered |-> TRUE, passed |-> FALSE, error |-> "exception",
             scores |-> {}]

\* age = days / 365.25
check_data_consistency(structured_data) ==
    LET dob == structured_data.date_naissance
        issues ==
            IF "date_naissance" \notin DOMAIN structured_data THEN {}
            ELSE IF ~dob.len8 THEN {}
            ELSE IF ~dob.parses THEN {"Invalid DOB format"}
            ELSE IF dob.days < 0 THEN {"Date of birth is in future"}
            ELSE IF dob.days * 100 < 16 * 36525 THEN {"Person under 16"}
            ELSE IF dob.days * 100 > 120 * 36525 THEN {"Person over 120"}
            ELSE {}
    IN [is_consistent |-> issues = {}, issues |-> issues,
        passed |-> issues = {}, scores |-> {}]

validate_expiry_date(expiry) ==
    IF ~expiry.parses
    THEN [is_valid |-> FALSE, status |-> "invalid_format", passed |-> FALSE,
          scores |-> {}]
    ELSE LET is_expired == expiry.days < 0
             status == IF is_expired THEN "expired"
                       ELSE IF expiry.days < 30 THEN "expiring_soon"
                       ELSE "valid"
         IN [is_valid |-> ~is_expired, status |-> status,
             passed |-> ~is_expired, scores |-> {"days_until_expiry"}]

\* results of check_authenticity: the tamper check always, the other two
\* under `if structured_data:` and `if expiry := ...get('date_expiration')`
AuthenticityChecks(tamper, structured_data) ==
    ("tampering" :> detect_tampering(tamper))
    @@ (IF DOMAIN structured_data # {}
        THEN ("data_consistency" :> check_data_consistency(structured_data))
             @@ (IF "date_expiration" \in DOMAIN structured_data
                 THEN ("expiry_validation" :>
                         validate_expiry_date(structured_data.date_expiration))
                 ELSE NoData)
        ELSE NoData)

\* A variant that scores over the three checks whether they ran or not
check_authenticity_OverThree(min_score, tamper, structured_data) ==
    LET results == AuthenticityChecks(tamper, structured_data)
        checks_passed == Cardinality({n \in DOMAIN results : results[n].passed})
        total_checks == 3
        authenticity_score == (checks_passed * Pct(100)) \div total_checks
    IN [is_authentic |-> authenticity_score >= min_score,
        authenticity_score |-> authenticity_score,
        checks_passed |-> <<checks_passed, total_checks>>,
        checks |-> results,
        nulls |-> {}]

check_authenticity(min_score, tamper, structured_data) ==
    LET results == AuthenticityChecks(tamper, structured_data)
        checks_passed == Cardinality({n \in DOMAIN results : results[n].passed})
        total_checks ==
            Cardinality({n \in DOMAIN results : "passed" \in DOMAIN results[n]})
        authenticity_score == IF total_checks > 0
                              THEN (checks_passed * Pct(100)) \div total_checks
                              ELSE Pct(50)
    IN [is_authentic |-> authenticity_score >= min_score,
        authenticity_score |-> authenticity_score,
        checks_passed |-> <<checks_passed, total_checks>>,
        checks |-> results,
        nulls |-> {}]

TamperCases == {"clean", "tampered", "error"}

\* ------------------------------------------------------------------
\* FaceMatcher.match_faces
\* `lib` is the face library's behaviour: "fail" when a call raises,
\* otherwise the distance it reports between the two encodings.
\* ------------------------------------------------------------------
FACE_MATCH_TOLERANCE == (5 * ONE) \div 10

\* face_encodings(rgb, locations)[0]: the region whose encoding
\* match_faces compares
encoded_face(image) == face_locations(image)[1]

\* A variant without the try block: a failing library call raises
match_faces_NoTry(id_image, selfie_image, lib_ok, distance) ==
    IF ~lib_ok
    THEN [raised |-> TRUE, nulls |-> {}]
    ELSE IF face_locations(id_image) = <<>>
            \/ face_locations(selfie_image) = <<>>
    THEN [matched |-> FALSE, confidence |-> 0,
          error |-> "Face not detected in one or both images", nulls |-> {}]
    ELSE [matched |-> distance <= FACE_MATCH_TOLERANCE,
          confidence |-> (ONE - distance) * 100,
          distance |-> distance,
          strategy |-> "face_recognition",
          threshold_used |-> FACE_MATCH_TOLERANCE,
          nulls |-> {}]

\* A variant that looks for a face in the document only
match_faces_IdOnly(id_image, selfie_image, lib_ok, distance) ==
    IF ~lib_ok
    THEN [matched |-> FALSE, confidence |-> 0, error |-> "exception",
          nulls |-> {}]
    ELSE IF face_locations(id_image) = <<>>
    THEN [matched |-> FALSE, confidence |-> 0,
          error |-> "Face not detected in one or both images", nulls |-> {}]
    ELSE [matched |-> distance <= FACE_MATCH_TOLERANCE,
          confidence |-> (ONE - distance) * 100,
          distance |-> distance,
          strategy |-> "face_recognition",
          threshold_used |-> FACE_MATCH_TOLERANCE,
          nulls |-> {}]

match_faces(id_image, selfie_image, lib_ok, distance) ==
    IF ~lib_ok
    THEN [matched |-> FALSE, confidence |-> 0, error |-> "exception",
          nulls |-> {}]
    ELSE IF face_locations(id_image) = <<>>
            \/ face_locations(selfie_image) = <<>>
    THEN [matched |-> FALSE, confidence |-> 0,
          error |-> "Face not detected in one or both images", nulls |-> {}]
    ELSE [matched |-> distance <= FACE_MATCH_TOLERANCE,
          confidence |-> (ONE - distance) * 100,
          distance |-> distance,
          strategy |-> "face_recognition",
          threshold_used |-> FACE_MATCH_TOLERANCE,
          nulls |-> {}]

\* Distances the library reports: 0, 0.25, ... (a Euclidean distance of two
\* encodings has no upper bound of 1), and one just above the tolerance.
Distances ==
    { (d * ONE) \div 4 : d \in 0..MaxDistance } \cup { (ONE \div 2) + 1 }

\* ------------------------------------------------------------------
\* VerificationService
\* ------------------------------------------------------------------
APPROVED_MIN == 75

MANUAL_REVIEW_MIN == 55

W_LIVENESS == 20

W_FACE == 50

W_AUTH == 10

W_DEEPFAKE == 20

\* The records verify_identity writes for the checks a gate skipped
SkippedFaceMatch(reason) ==
    [matched |-> FALSE, confidence |-> 0, error |-> reason,
     nulls |-> {"distance", "strategy"}]

SkippedLiveness(reason) ==
    [is_live |-> FALSE, error |-> reason,
     nulls |-> {"liveness_score", "checks_passed", "confidence", "checks"}]

SkippedDeepfake(reason) ==
    [is_real |-> FALSE, error |-> reason,
     nulls |-> {"confidence", "label", "model_available"}]

SkippedDocument(reason) ==
    [is_authentic |-> FALSE, error |-> reason,
     nulls |-> {"authenticity_score", "checks_passed", "checks"}]

\* A variant that leaves the deepfake record out of a short-circuit verdict
SkippedChecks_Three(reason) ==
    [face_match |-> SkippedFaceMatch(reason),
     liveness_check |-> SkippedLiveness(reason),
     document_authenticity |-> SkippedDocument(reason)]

SkippedChecks(reason) ==
    [face_match |-> SkippedFaceMatch(reason),
     liveness_check |-> SkippedLiveness(reason),
     deepfake_check |-> SkippedDeepfake(reason),
     document_authenticity |-> SkippedDocument(reason)]

DuplicateVerdict(sim) ==
    [status |-> "rejected", overall_confidence |-> 0,
     message |-> "Fraud detected: Same image used for both document and selfie",
     similarity_check |-> sim]
    @@ SkippedChecks("Duplicate image detected")

\* A variant that sends a missing document to manual review
NoDocumentVerdict_Review(sim, doc) ==
    [status |-> "manual_review", overall_confidence |-> 0,
     message |-> "Invalid document: Image does not contain a proper identity document",
     document_structure |-> doc, similarity_check |-> sim]
    @@ SkippedChecks("No document detected")

NoDocumentVerdict(sim, doc) ==
    [status |-> "rejected", overall_confidence |-> 0,
     message |-> "Invalid document: Image does not contain a proper identity document",
     document_structure |-> doc, similarity_check |-> sim]
    @@ SkippedChecks("No document detected")

\* A variant that copies the structure gate's marker
FaceOnlyVerdict_WrongMarker(sim, doc, face) ==
    [status |-> "rejected", overall_confidence |-> 0,
     message |-> "Invalid document: Please provide a full identity document, not just a face photo",
     document_structure |-> doc, face_only_check |-> face,
     similarity_check |-> sim]
    @@ SkippedChecks("No document detected")

FaceOnlyVerdict(sim, doc, face) ==
    [status |-> "rejected", overall_confidence |-> 0,
     message |-> "Invalid document: Please provide a full identity document, not just a face photo",
     document_structure |-> doc, face_only_check |-> face,
     similarity_check |-> sim]
    @@ SkippedChecks("Document is just a face")

\* _get_message; the text embeds the confidence formatted to one decimal,
\* which is left out here.
GetMessage(status) ==
    CASE status = "approved" -> "Identity verified"
      [] status = "manual_review" -> "Manual review required"
      [] OTHER -> "Verification failed"

\* A variant with the weights 0.25 / 0.40 / 0.15 / 0.20
Overall_OtherWeights(liveness_score, face_confidence, auth_score, deepfake_conf) ==
    (liveness_score * 25 + face_confidence * 40
     + auth_score * 15 + deepfake_conf * 20) \div 100

\* The weighted sum of _make_decision over the four scores
Overall(liveness_score, face_confidence, auth_score, deepfake_conf) ==
    (liveness_score * W_LIVENESS + face_confidence * W_FACE
     + auth_score * W_AUTH + deepfake_conf * W_DEEPFAKE) \div 100

\* A variant whose cut-points are exclusive
StatusOf_Strict(overall) ==
    IF overall > Pct(APPROVED_MIN) THEN "approved"
    ELSE IF overall > Pct(MANUAL_REVIEW_MIN) THEN "manual_review"
    ELSE "rejected"

\* A variant that approves from 70
StatusOf_Lenient(overall) ==
    IF overall >= Pct(70) THEN "approved"
    ELSE IF overall >= Pct(MANUAL_REVIEW_MIN) THEN "manual_review"
    ELSE "rejected"

\* The cut-points of _make_decision
StatusOf(overall) ==
    IF overall >= Pct(APPROVED_MIN) THEN "approved"
    ELSE IF overall >= Pct(MANUAL_REVIEW_MIN) THEN "manual_review"
    ELSE "rejected"

\* A variant in which a selfie classified as fake is rejected
MakeDecision_RejectsFake(res) ==
    IF \/ IsNone(res.liveness_check, "liveness_score")
       \/ IsNone(res.face_match, "confidence")
       \/ IsNone(res.document_authenticity, "authenticity_score")
       \/ IsNone(res.deepfake_check, "confidence")
    THEN [raised |-> TRUE]
    ELSE LET overall ==
                 Overall(Get(res.liveness_check, "liveness_score", 0) * 100,
                         Get(res.face_match, "confidence", 0),
                         Get(res.document_authenticity,
                             "authenticity_score", 0),
                         Get(res.deepfake_check, "confidence", ONE \div 2)
                             * 100)
             status == IF ~res.deepfake_check.is_real THEN "rejected"
                       ELSE StatusOf(overall)
         IN [raised |-> FALSE, status |-> status,
             overall_confidence |-> overall,
             message |-> GetMessage(status)]

\* _make_decision(results).  A score that is None makes the arithmetic
\* raise TypeError: the result is then [raised |-> TRUE].
MakeDecision(res) ==
    IF \/ IsNone(res.liveness_check, "liveness_score")
       \/ IsNone(res.face_match, "confidence")
       \/ IsNone(res.document_authenticity, "authenticity_score")
       \/ IsNone(res.deepfake_check, "confidence")
    THEN [raised |-> TRUE]
    ELSE LET liveness_score ==
                 Get(res.liveness_check, "liveness_score", 0) * 100
             face_confidence == Get(res.face_match, "confidence", 0)
             auth_score ==
                 Get(res.document_authenticity, "authenticity_score", 0)
             deepfake_conf ==
                 Get(res.deepfake_check, "confidence", ONE \div 2) * 100
             overall == Overall(liveness_score, face_confidence,
                                auth_score, deepfake_conf)
             status == StatusOf(overall)
         IN [raised |-> FALSE, status |-> status,
             overall_confidence |-> overall,
             message |-> GetMessage(status)]

\* The except branches of _run_parallel_checks
DefaultLiveness == SkippedLiveness("exception")

DefaultDeepfake == SkippedDeepfake("exception")

DefaultDocument == SkippedDocument("exception")

DefaultFaceMatch == SkippedFaceMatch("exception")

\* ------------------------------------------------------------------
\* VerificationResponse(**result): pydantic validation in the endpoint
\* ------------------------------------------------------------------
Present(d, keys) == \A k \in keys : k \in DOMAIN d /\ k \notin d.nulls

InRange(x, lo, hi) == lo <= x /\ x <= hi

FaceMatchResponse(d) ==
    /\ Present(d, {"matched", "confidence", "distance", "strategy"})
    /\ InRange(d.confidence, 0, Pct(100))

LivenessCheckResponse(d) ==
    /\ Present(d, {"is_live", "liveness_score", "checks_passed",
                   "confidence", "checks"})
    /\ InRange(d.liveness_score, 0, ONE)

DeepfakeCheckResponse(d) ==
    /\ Present(d, {"is_real", "confidence", "label", "model_available"})
    /\ InRange(d.confidence, 0, ONE)

DocumentAuthResponse(d) ==
    /\ Present(d, {"is_authentic", "authenticity_score", "checks_passed",
                   "checks"})
    /\ InRange(d.authenticity_score, 0, Pct(100))

VerificationResponse(v) ==
    /\ {"status", "overall_confidence", "message", "face_match",
        "liveness_check", "deepfake_check", "document_authenticity"}
           \subseteq DOMAIN v
    /\ InRange(v.overall_confidence, 0, Pct(100))
    /\ FaceMatchResponse(v.face_match)
    /\ LivenessCheckResponse(v.liveness_check)
    /\ DeepfakeCheckResponse(v.deepfake_check)
    /\ DocumentAuthResponse(v.document_authenticity)

\* ------------------------------------------------------------------
\* State: one worker process serving /api/v1/verify requests one after
\* the other.
\* ------------------------------------------------------------------
VARIABLES
    settings,             \* thresholds the detectors were constructed with
    available,            \* DeepfakeDetector.available, set by _load_model
    args,                 \* arguments of a detector called on its own
    id_document, selfie,  \* the images of the request in progress
    pc,                   \* where the request is
    calls,                \* detector operations invoked for this request
    similarity_check,     \* locals of verify_identity
    doc_structure_check,
    face_only_check,
    results,
    verdict,              \* what verify_identity returned
    http,                 \* status code the endpoint answered with; 0: none
    VALID_API_KEYS,       \* settings.VALID_API_KEYS, split at its commas
    api_key,              \* X-API-Key header of the request in progress
    client_id,            \* what verify_api_key returned for it
    rate_limits,          \* auth.rate_limits: requests in the window, by client
    service_cache,        \* lru_cache of get_verification_service; 0: empty
    services,             \* VerificationService instances constructed so far
    requests              \* concurrently served requests, by request number

api_vars == <<VALID_API_KEYS, api_key, client_id, rate_limits>>

conc_vars == <<service_cache, services, requests>>

vars == <<settings, available, args, id_document, selfie, pc, calls, similarity_check,
          doc_structure_check, face_only_check, results, verdict, http,
          api_vars, conc_vars>>

Unset == [nulls |-> {}]

NoResults == [k \in {} |-> Unset]

\* get_settings() without overrides, as dependencies.py hands them to
\* the detectors' constructors
DefaultSettings ==
    [LIVENESS_SCORE_MIN |-> LIVENESS_SCORE_MIN,
     AUTHENTICITY_SCORE_MIN |-> Pct(AUTHENTICITY_SCORE_MIN),
     similarity_threshold |-> similarity_threshold]

NoArgs == [op |-> "none"]

\* What APIKeyHeader(auto_error=False) hands over without the header
NoKey == "(no header)"

NoClient == "(none)"

\* hashlib.sha256(api_key.encode()).hexdigest(), named by its argument
sha256(key) ==
    CASE key = "key-1" -> "sha256(key-1)"
      [] key = "key-2" -> "sha256(key-2)"
      [] OTHER -> "sha256(wrong-key-12345)"

NoLimits == [c \in {} |-> 0]

NoRequests == [r \in {} |-> 0]

\* A request that passed check_rate_limit, served by the one
\* VerificationService of the process
Admitted ==
    /\ VALID_API_KEYS = <<"key-1">>
    /\ api_key = "key-1"
    /\ client_id = sha256("key-1")
    /\ rate_limits = (sha256("key-1") :> 1)

OneService ==
    /\ service_cache = 1
    /\ services = 1
    /\ requests = NoRequests

Init ==
    /\ Admitted
    /\ OneService
    /\ settings = DefaultSettings
    /\ available \in BOOLEAN
    /\ args = NoArgs
    /\ id_document \in Images
    /\ selfie \in Images
    /\ pc = "similarity"
    /\ calls = <<>>
    /\ similarity_check = Unset
    /\ doc_structure_check = Unset
    /\ face_only_check = Unset
    /\ results = NoResults
    /\ verdict = Unset
    /\ http = 0

Invoke(op) == calls' = Append(calls, op)

Return(v) == verdict' = v /\ pc' = "returned"

\* A variant of the similarity gate that never short-circuits
SimilarityGate_NoShortCircuit ==
    /\ pc = "similarity"
    /\ \E scores \in SimilarityCases :
        /\ Invoke("are_images_too_similar")
        /\ similarity_check' = are_images_too_similar(settings.similarity_threshold, scores)
    /\ pc' = "structure"
    /\ UNCHANGED <<api_vars, conc_vars, settings, available, args, id_document, selfie, doc_structure_check,
                   face_only_check, results, verdict, http>>

\* verify_identity, lines 55-95: the similarity gate
SimilarityGate ==
    /\ pc = "similarity"
    /\ \E scores \in SimilarityCases :
        LET sim == are_images_too_similar(settings.similarity_threshold, scores) IN
        /\ Invoke("are_images_too_similar")
        /\ similarity_check' = sim
        /\ IF Get(sim, "is_duplicate", FALSE)
           THEN Return(DuplicateVerdict(sim))
           ELSE pc' = "structure" /\ UNCHANGED verdict
    /\ UNCHANGED <<api_vars, conc_vars, settings, available, args, id_document, selfie, doc_structure_check,
                   face_only_check, results, http>>

\* verify_identity, lines 97-138: the document structure gate
StructureGate ==
    /\ pc = "structure"
    /\ \E detected \in StructureCases :
        LET doc == detect_document_structure(detected) IN
        /\ Invoke("detect_document_structure")
        /\ doc_structure_check' = doc
        /\ IF ~Get(doc, "has_document", FALSE)
           THEN Return(NoDocumentVerdict(similarity_check, doc))
           ELSE pc' = "face_only" /\ UNCHANGED verdict
    /\ UNCHANGED <<api_vars, conc_vars, settings, available, args, id_document, selfie, similarity_check,
                   face_only_check, results, http>>

\* verify_identity, lines 140-180: the face-only gate
FaceOnlyGate ==
    /\ pc = "face_only"
    /\ \E lib_ok \in BOOLEAN :
        LET face == is_just_a_face(id_document, lib_ok) IN
        /\ Invoke("is_just_a_face")
        /\ face_only_check' = face
        /\ IF Get(face, "is_just_face", FALSE)
           THEN Return(FaceOnlyVerdict(similarity_check,
                                       doc_structure_check, face))
           ELSE pc' = "liveness" /\ UNCHANGED verdict
    /\ UNCHANGED <<api_vars, conc_vars, settings, available, args, id_document, selfie, similarity_check,
                   doc_structure_check, results, http>>

Store(key, value) == results' = (key :> value) @@ results

\* A variant without the except branches: what the check raised is stored
Caught_Propagates(r, default) == r

\* The try/except around each awaited check in _run_parallel_checks: a
\* check that raised leaves the defaulted record of its except branch.
Caught(r, default) == IF "raised" \in DOMAIN r THEN default ELSE r

\* A variant that calls the liveness check again after it raised
RunLivenessCheck_Retry ==
    /\ pc = "liveness"
    /\ \E lib_ok \in BOOLEAN, outcomes \in LivenessCases :
        LET r == LivenessCheck(settings.LIVENESS_SCORE_MIN, selfie, lib_ok,
                               outcomes)
        IN /\ Invoke("check")
           /\ Store("liveness_check", Caught(r, DefaultLiveness))
           /\ pc' = IF "raised" \in DOMAIN r /\ Len(calls) < 5
                    THEN "liveness" ELSE "deepfake"
    /\ UNCHANGED <<api_vars, conc_vars, settings, available, args, id_document, selfie,
                   similarity_check, doc_structure_check, face_only_check,
                   verdict, http>>

\* _run_parallel_checks, lines 209-222
RunLivenessCheck ==
    /\ pc = "liveness"
    /\ \E lib_ok \in BOOLEAN, outcomes \in LivenessCases :
        /\ Invoke("check")
        /\ Store("liveness_check",
                 Caught(LivenessCheck(settings.LIVENESS_SCORE_MIN, selfie,
                                      lib_ok, outcomes),
                        DefaultLiveness))
    /\ pc' = "deepfake"
    /\ UNCHANGED <<api_vars, conc_vars, settings, available, args, id_document, selfie, similarity_check,
                   doc_structure_check, face_only_check, verdict, http>>

\* _run_parallel_checks, lines 224-236
RunDeepfakeCheck ==
    /\ pc = "deepfake"
    /\ \E out \in DeepfakeCases :
        /\ Invoke("detect")
        /\ Store("deepfake_check",
                 Caught(DeepfakeDetect(available, out), DefaultDeepfake))
    /\ pc' = "document"
    /\ UNCHANGED <<api_vars, conc_vars, settings, available, args, id_document, selfie, similarity_check,
                   doc_structure_check, face_only_check, verdict, http>>

\* _run_parallel_checks, lines 238-250
RunDocumentCheck ==
    /\ pc = "document"
    /\ \E tamper \in TamperCases :
        /\ Invoke("check_authenticity")
        /\ Store("document_authenticity",
                 Caught(check_authenticity(settings.AUTHENTICITY_SCORE_MIN,
                                           tamper, NoData),
                        DefaultDocument))
    /\ pc' = "face_match"
    /\ UNCHANGED <<api_vars, conc_vars, settings, available, args, id_document, selfie, similarity_check,
                   doc_structure_check, face_only_check, verdict, http>>

\* _run_parallel_checks, lines 252-266
RunFaceMatch ==
    /\ pc = "face_match"
    /\ \E lib_ok \in BOOLEAN, distance \in Distances :
        /\ Invoke("match_faces")
        /\ Store("face_match",
                 Caught(match_faces(id_document, selfie, lib_ok, distance),
                        DefaultFaceMatch))
    /\ pc' = "decision"
    /\ UNCHANGED <<api_vars, conc_vars, settings, available, args, id_document, selfie, similarity_check,
                   doc_structure_check, face_only_check, verdict, http>>

\* verify_identity, lines 185-197: merge the pre-checks, decide, return;
\* an exception of _make_decision leaves verify_identity.
Decide ==
    /\ pc = "decision"
    /\ LET merged == [similarity_check |-> similarity_check,
                      document_structure |-> doc_structure_check] @@ results
           decision == MakeDecision(merged)
       IN /\ results' = merged
          /\ IF decision.raised
             THEN pc' = "raised" /\ UNCHANGED verdict
             ELSE Return(merged @@ [status |-> decision.status,
                                    overall_confidence |->
                                        decision.overall_confidence,
                                    message |-> decision.message])
    /\ UNCHANGED <<api_vars, conc_vars, settings, available, args, id_document, selfie, calls, similarity_check,
                   doc_structure_check, face_only_check, http>>

\* The endpoint, lines 130-154: an exception of the service, or of the
\* response model's validation, is answered with 500.
Respond ==
    /\ pc \in {"returned", "raised"}
    /\ http' = IF pc = "returned" /\ VerificationResponse(verdict)
               THEN 200 ELSE 500
    /\ pc' = "responded"
    /\ UNCHANGED <<api_vars, conc_vars, settings, available, args, id_document, selfie, calls, similarity_check,
                   doc_structure_check, face_only_check, results, verdict>>

\* The next request of the same process
NewRequest ==
    /\ pc = "responded"
    /\ id_document' \in Images
    /\ selfie' \in Images
    /\ pc' = "similarity"
    /\ calls' = <<>>
    /\ similarity_check' = Unset
    /\ doc_structure_check' = Unset
    /\ face_only_check' = Unset
    /\ results' = NoResults
    /\ verdict' = Unset
    /\ http' = 0
    /\ UNCHANGED <<api_vars, conc_vars, settings, available, args>>

Next ==
    \/ SimilarityGate
    \/ StructureGate
    \/ FaceOnlyGate
    \/ RunLivenessCheck
    \/ RunDeepfakeCheck
    \/ RunDocumentCheck
    \/ RunFaceMatch
    \/ Decide
    \/ Respond
    \/ NewRequest

Spec == Init /\ [][Next]_vars

\* ------------------------------------------------------------------
\* The route /api/v1/verify behind its dependencies: main.py includes the
\* verification router with dependencies=[Depends(check_rate_limit)], and
\* check_rate_limit depends on verify_api_key; both are resolved before
\* the endpoint body, which awaits verify_identity.
\* ------------------------------------------------------------------
\* Values of the setting: the default "", one key, two keys around a blank
KeySettings == { <<"">>, <<"key-1">>, <<"key-1", "", "key-2">> }

ApiKeys == { NoKey, "", "key-1", "key-2", "wrong-key-12345" }

\* [k.strip() for k in settings.VALID_API_KEYS.split(",") if k.strip()]
ParseKeys(items) == { items[i] : i \in { j \in DOMAIN items : items[j] # "" } }

\* rate_limits[client_id] after the clean-up of the window, as a count
InWindow(limits, client, expired) ==
    IF client \in DOMAIN limits THEN limits[client] - expired ELSE 0

Forbidden ==
    /\ http' = 403
    /\ pc' = "responded"
    /\ UNCHANGED client_id

\* verify_api_key
VerifyApiKey ==
    /\ pc = "auth"
    /\ LET valid_keys == ParseKeys(VALID_API_KEYS) IN
       IF api_key \in {NoKey, ""}
       THEN Forbidden
       ELSE IF valid_keys = {}
       THEN client_id' = "anonymous" /\ pc' = "rate_limit" /\ UNCHANGED http
       ELSE IF api_key \notin valid_keys
       THEN Forbidden
       ELSE client_id' = sha256(api_key) /\ pc' = "rate_limit" /\ UNCHANGED http
    /\ UNCHANGED <<VALID_API_KEYS, api_key, rate_limits, conc_vars, settings,
                   available, args, id_document, selfie, calls,
                   similarity_check, doc_structure_check, face_only_check,
                   results, verdict>>

\* check_rate_limit: `expired` of the client's timestamps are older than
\* the window at the time of the call
CheckRateLimit ==
    /\ pc = "rate_limit"
    /\ \E expired \in 0..InWindow(rate_limits, client_id, 0) :
        LET kept == InWindow(rate_limits, client_id, expired) IN
        IF kept >= MaxRequestsPerMinute
        THEN /\ rate_limits' = (client_id :> kept) @@ rate_limits
             /\ http' = 429
             /\ pc' = "responded"
        ELSE /\ rate_limits' = (client_id :> kept + 1) @@ rate_limits
             /\ pc' = "similarity"
             /\ UNCHANGED http
    /\ UNCHANGED <<VALID_API_KEYS, api_key, client_id, conc_vars, settings,
                   available, args, id_document, selfie, calls,
                   similarity_check, doc_structure_check, face_only_check,
                   results, verdict>>

\* The next request to the route, with the same two images
NextApiRequest ==
    /\ pc = "responded"
    /\ api_key' \in ApiKeys
    /\ client_id' = NoClient
    /\ pc' = "auth"
    /\ calls' = <<>>
    /\ similarity_check' = Unset
    /\ doc_structure_check' = Unset
    /\ face_only_check' = Unset
    /\ results' = NoResults
    /\ verdict' = Unset
    /\ http' = 0
    /\ UNCHANGED <<VALID_API_KEYS, rate_limits, conc_vars, settings, available,
                   args, id_document, selfie>>

InitApi ==
    /\ VALID_API_KEYS \in KeySettings
    /\ api_key \in ApiKeys
    /\ client_id = NoClient
    /\ rate_limits = NoLimits
    /\ OneService
    /\ settings = DefaultSettings
    /\ available = TRUE
    /\ args = NoArgs
    /\ id_document = [shape |-> ImageShape, faces |-> <<BigFace>>]
    /\ selfie = [shape |-> ImageShape, faces |-> <<BigFace>>]
    /\ pc = "auth"
    /\ calls = <<>>
    /\ similarity_check = Unset
    /\ doc_structure_check = Unset
    /\ face_only_check = Unset
    /\ results = NoResults
    /\ verdict = Unset
    /\ http = 0

NextApi ==
    \/ VerifyApiKey
    \/ CheckRateLimit
    \/ SimilarityGate
    \/ StructureGate
    \/ FaceOnlyGate
    \/ RunLivenessCheck
    \/ RunDeepfakeCheck
    \/ RunDocumentCheck
    \/ RunFaceMatch
    \/ Decide
    \/ Respond
    \/ NextApiRequest

SpecApi == InitApi /\ [][NextApi]_vars

\* ------------------------------------------------------------------
\* Requests to /api/v1/verify served concurrently. The endpoint's
\* dependency get_verification_service is a plain function under
\* lru_cache(): it is resolved in a worker thread of the server, and a
\* call that finds the cache empty runs the function, whose result is
\* kept unless the cache was filled meanwhile. Every VerificationService
\* has its own ThreadPoolExecutor(max_workers=1), to which verify_identity
\* hands each of its seven operations in turn.
\* ------------------------------------------------------------------
\* The operations verify_identity awaits, in its order; each hands one
\* job to self.executor
Submitted ==
    <<"_run_similarity_check", "_run_document_structure_check",
      "_check_if_just_face", "_run_liveness_check", "_run_deepfake_check",
      "_run_document_check", "_run_face_match">>

Stages == Len(Submitted)

Request(p, s, n) == [pc |-> p, service |-> s, stage |-> n]

Update(r, value) == requests' = (r :> value) @@ requests

\* The executor's one worker is busy with a job of another request
Busy(service, r) ==
    \E q \in DOMAIN requests \ {r} :
        /\ requests[q].pc = "running"
        /\ requests[q].service = service

\* A request reaches the endpoint
Arrive ==
    /\ Cardinality(DOMAIN requests) < MaxRequests
    /\ Update(Cardinality(DOMAIN requests) + 1, Request("resolve", 0, 0))
    /\ UNCHANGED <<service_cache, services>>

\* lru_cache: a hit returns the cached service; a miss calls the function
Lookup(r) ==
    /\ requests[r].pc = "resolve"
    /\ IF service_cache # 0
       THEN Update(r, Request("queued", service_cache, 1))
       ELSE Update(r, Request("constructing", 0, 0))
    /\ UNCHANGED <<service_cache, services>>

\* get_verification_service returns a new VerificationService with a new
\* executor; lru_cache keeps it if the key is still missing, and the
\* caller receives the instance it constructed
Construct(r) ==
    /\ requests[r].pc = "constructing"
    /\ services' = services + 1
    /\ service_cache' = IF service_cache = 0 THEN services' ELSE service_cache
    /\ Update(r, Request("queued", services', 1))

\* The worker of the request's executor takes the submitted job
Start(r) ==
    /\ requests[r].pc = "queued"
    /\ ~Busy(requests[r].service, r)
    /\ Update(r, [requests[r] EXCEPT !.pc = "running"])
    /\ UNCHANGED <<service_cache, services>>

\* The job ends: verify_identity submits the next operation, or returns
\* (after the first three a gate may short-circuit)
Finish(r) ==
    /\ requests[r].pc = "running"
    /\ \E short \in BOOLEAN :
        IF requests[r].stage = Stages \/ (short /\ requests[r].stage <= 3)
        THEN Update(r, [requests[r] EXCEPT !.pc = "done"])
        ELSE Update(r, [requests[r] EXCEPT !.pc = "queued",
                                           !.stage = @ + 1])
    /\ UNCHANGED <<service_cache, services>>

Elsewhere ==
    UNCHANGED <<api_vars, settings, available, args, id_document, selfie, pc,
                calls, similarity_check, doc_structure_check, face_only_check,
                results, verdict, http>>

ServeArrive == Arrive /\ Elsewhere

ServeLookup == (\E r \in DOMAIN requests : Lookup(r)) /\ Elsewhere

ServeConstruct == (\E r \in DOMAIN requests : Construct(r)) /\ Elsewhere

ServeStart == (\E r \in DOMAIN requests : Start(r)) /\ Elsewhere

ServeFinish == (\E r \in DOMAIN requests : Finish(r)) /\ Elsewhere

\* The process after start-up: lifespan preloads the detectors but not
\* the service, so the cache is empty when the first requests arrive
InitConcurrent ==
    /\ Admitted
    /\ service_cache = 0
    /\ services = 0
    /\ requests = NoRequests
    /\ settings = DefaultSettings
    /\ available = TRUE
    /\ args = NoArgs
    /\ id_document = [shape |-> ImageShape, faces |-> <<BigFace>>]
    /\ selfie = [shape |-> ImageShape, faces |-> <<BigFace>>]
    /\ pc = "concurrent"
    /\ calls = <<>>
    /\ similarity_check = Unset
    /\ doc_structure_check = Unset
    /\ face_only_check = Unset
    /\ results = NoResults
    /\ verdict = Unset
    /\ http = 0

NextConcurrent ==
    \/ ServeArrive
    \/ ServeLookup
    \/ ServeConstruct
    \/ ServeStart
    \/ ServeFinish

SpecConcurrent == InitConcurrent /\ [][NextConcurrent]_vars

\* ------------------------------------------------------------------
\* The detectors called on their own: each is constructed with the
\* thresholds of `settings` and called with arguments recorded in `args`;
\* what it returned (or [raised |-> TRUE]) is left in `results` under the
\* key the service uses for it.
\* ------------------------------------------------------------------
SettingsCases ==
    { DefaultSettings,
      [LIVENESS_SCORE_MIN |-> (65 * ONE) \div 100,
       AUTHENTICITY_SCORE_MIN |-> Pct(60),
       similarity_threshold |-> ONE],
      [LIVENESS_SCORE_MIN |-> (70 * ONE) \div 100,
       AUTHENTICITY_SCORE_MIN |-> Pct(100),
       similarity_threshold |-> ONE \div 2],
      [LIVENESS_SCORE_MIN |-> (40 * ONE) \div 100,
       AUTHENTICITY_SCORE_MIN |-> Pct(30),
       similarity_threshold |-> (3 * ONE) \div 4] }

\* Every combination of outcomes of the five pixel sub-checks
AllOutcomes ==
    [{PixelChecks[i] : i \in 1..Len(PixelChecks)} -> {"pass", "fail", "raise"}]

BirthDates ==
    { [len8 |-> FALSE, parses |-> FALSE, days |-> 0],
      [len8 |-> TRUE, parses |-> FALSE, days |-> 0] }
    \cup { [len8 |-> TRUE, parses |-> TRUE, days |-> d] :
              d \in {0 - 10, 10 * 365, 30 * 365, 130 * 365} }

ExpiryDates ==
    { [parses |-> FALSE, days |-> 0] }
    \cup { [parses |-> TRUE, days |-> d] : d \in {0 - 1, 0, 29, 30} }

StructuredDataCases ==
    { NoData, [nom |-> "X"] }
    \cup { [date_naissance |-> b] : b \in BirthDates }
    \cup { [date_expiration |-> e] : e \in ExpiryDates }
    \cup { [date_naissance |-> b, date_expiration |-> e] :
              b \in BirthDates, e \in ExpiryDates }

InitDetectors ==
    /\ Admitted
    /\ OneService
    /\ settings \in SettingsCases
    /\ available \in BOOLEAN
    /\ args = NoArgs
    /\ selfie \in Images
    /\ id_document = selfie
    /\ pc = "direct"
    /\ calls = <<>>
    /\ similarity_check = Unset
    /\ doc_structure_check = Unset
    /\ face_only_check = Unset
    /\ results = NoResults
    /\ verdict = Unset
    /\ http = 0

Direct(a, key, value) ==
    /\ args' = a
    /\ results' = (key :> value)
    /\ pc' = "called"

CallLivenessCheck ==
    /\ pc = "direct"
    /\ \E lib_ok \in BOOLEAN, outcomes \in AllOutcomes :
        Direct([op |-> "check", image |-> selfie, lib_ok |-> lib_ok,
                outcomes |-> outcomes],
               "liveness_check",
               LivenessCheck(settings.LIVENESS_SCORE_MIN, selfie, lib_ok,
                             outcomes))
    /\ UNCHANGED <<api_vars, conc_vars, settings, available, id_document, selfie, calls,
                   similarity_check, doc_structure_check, face_only_check,
                   verdict, http>>

CallDeepfakeDetect ==
    /\ pc = "direct"
    /\ \E out \in DeepfakeCases :
        Direct([op |-> "detect", image |-> selfie, out |-> out],
               "deepfake_check", DeepfakeDetect(available, out))
    /\ UNCHANGED <<api_vars, conc_vars, settings, available, id_document, selfie, calls,
                   similarity_check, doc_structure_check, face_only_check,
                   verdict, http>>

CallCheckAuthenticity ==
    /\ pc = "direct"
    /\ \E tamper \in TamperCases, structured_data \in StructuredDataCases :
        Direct([op |-> "check_authenticity", tamper |-> tamper,
                structured_data |-> structured_data],
               "document_authenticity",
               check_authenticity(settings.AUTHENTICITY_SCORE_MIN, tamper,
                                  structured_data))
    /\ UNCHANGED <<api_vars, conc_vars, settings, available, id_document, selfie, calls,
                   similarity_check, doc_structure_check, face_only_check,
                   verdict, http>>

CallDetectDocumentStructure ==
    /\ pc = "direct"
    /\ \E detected \in SUBSET {Detectors[i] : i \in 1..Len(Detectors)} :
        Direct([op |-> "detect_document_structure", detected |-> detected],
               "document_structure", detect_document_structure(detected))
    /\ UNCHANGED <<api_vars, conc_vars, settings, available, id_document, selfie, calls,
                   similarity_check, doc_structure_check, face_only_check,
                   verdict, http>>

CallAreImagesTooSimilar ==
    /\ pc = "direct"
    /\ \E image1 \in GrayImages, image2 \in GrayImages, lib_ok \in BOOLEAN :
        \E ssim_score \in LibraryScores(image1, image2),
           hist_score \in LibraryScores(image1, image2) :
            Direct([op |-> "are_images_too_similar", image1 |-> image1,
                    image2 |-> image2, lib_ok |-> lib_ok],
                   "similarity_check",
                   are_images_too_similar(
                       settings.similarity_threshold,
                       IF lib_ok
                       THEN Estimators(image1, image2, ssim_score, hist_score)
                       ELSE <<>>))
    /\ UNCHANGED <<api_vars, conc_vars, settings, available, id_document, selfie, calls,
                   similarity_check, doc_structure_check, face_only_check,
                   verdict, http>>

\* The next call, on another image
NextCall ==
    /\ pc = "called"
    /\ pc' = "direct"
    /\ args' = NoArgs
    /\ results' = NoResults
    /\ selfie' \in Images
    /\ id_document' = selfie'
    /\ UNCHANGED <<api_vars, conc_vars, settings, available, calls, similarity_check,
                   doc_structure_check, face_only_check, verdict, http>>

NextDetectors ==
    \/ CallLivenessCheck
    \/ CallDeepfakeDetect
    \/ CallCheckAuthenticity
    \/ CallDetectDocumentStructure
    \/ CallAreImagesTooSimilar
    \/ NextCall

SpecDetectors == InitDetectors /\ [][NextDetectors]_vars

\* ------------------------------------------------------------------
\* Properties
\* ------------------------------------------------------------------
FourChecks == {"face_match", "liveness_check", "deepfake_check",
               "document_authenticity"}

PostGateOps == {"check", "detect", "check_authenticity", "match_faces"}

Statuses == {"approved", "manual_review", "rejected"}

\* verify_identity has returned a verdict (to the endpoint, or already
\* answered)
Returned == pc \in {"returned", "responded"} /\ verdict # Unset

IsDuplicate == Get(similarity_check, "is_duplicate", FALSE)

NoDocument ==
    "has_document" \in DOMAIN doc_structure_check
    /\ ~doc_structure_check.has_document

JustFace == Get(face_only_check, "is_just_face", FALSE)

ShortCircuited == IsDuplicate \/ NoDocument \/ JustFace

GateReason ==
    IF IsDuplicate THEN "Duplicate image detected"
    ELSE IF NoDocument THEN "No document detected"
    ELSE "Document is just a face"

VerdictKey(k) ==
    CASE k = "face_match" -> "matched"
      [] k = "liveness_check" -> "is_live"
      [] k = "deepfake_check" -> "is_real"
      [] k = "document_authenticity" -> "is_authentic"

C2_NoDocumentRejected ==
    NoDocument => Returned /\ verdict.status = "rejected"

C2_Witness ==
    NoDocument /\ pc = "returned" /\ face_locations(selfie) # <<>>

\* C3: when the first two gates pass and is_just_a_face reports
\* is_just_face, the verdict is rejected and each of the four check records
\* carries the marker 'Document is just a face'.
C3_FaceOnlyRejected ==
    JustFace =>
        /\ Returned
        /\ verdict.status = "rejected"
        /\ \A k \in FourChecks :
            /\ k \in DOMAIN verdict
            /\ "error" \in DOMAIN verdict[k]
            /\ verdict[k].error = "Document is just a face"

C3_Witness ==
    /\ JustFace
    /\ pc = "returned"
    /\ ~IsDuplicate
    /\ doc_structure_check.has_document

\* C4: every short-circuit verdict has overall_confidence 0 and holds a
\* record for each of the four skipped checks, its verdict false and its
\* error the reason of the gate that fired.
C4_ShortCircuitRecords ==
    (ShortCircuited /\ Returned) =>
        /\ verdict.overall_confidence = 0
        /\ \A k \in FourChecks :
            /\ k \in DOMAIN verdict
            /\ verdict[k][VerdictKey(k)] = FALSE
            /\ "error" \in DOMAIN verdict[k]
            /\ verdict[k].error = GateReason

C4_Witness == NoDocument /\ Returned /\ Len(calls) = 2

\* C5: every verdict verify_identity returns satisfies the
\* VerificationResponse schema, so the endpoint answers it with 200.
C5_VerdictFullyPopulated ==
    Returned =>
        /\ VerificationResponse(verdict)
        /\ pc = "responded" => http = 200

\* C6: when a post-gate check raised and left its defaulted record,
\* verify_identity still returns a verdict with one of the three statuses;
\* no exception leaves verify_identity.
AnyDefaulted ==
    \E k \in DOMAIN results \cap FourChecks :
        results[k] \in {DefaultLiveness, DefaultDeepfake, DefaultDocument,
                        DefaultFaceMatch}

C6_FaultYieldsVerdict ==
    /\ pc # "raised"
    /\ (AnyDefaulted /\ pc \in {"returned", "responded"}) =>
          verdict # Unset /\ verdict.status \in Statuses

\* C7: without a short-circuit, overall_confidence is
\* liveness_score*100*0.20 + face confidence*0.50 + authenticity_score*0.10
\* + deepfake confidence*100*0.20; the weights sum to 1 and raising any one
\* score never lowers the sum.
ScoreSteps == {1, ONE \div 6, ONE, Pct(25)}

C7_WeightedSum ==
    (Returned /\ ~ShortCircuited) =>
        LET l == verdict.liveness_check.liveness_score * 100
            f == verdict.face_match.confidence
            a == verdict.document_authenticity.authenticity_score
            d == verdict.deepfake_check.confidence * 100
            oc == verdict.overall_confidence
        IN /\ oc * 100 = l * 20 + f * 50 + a * 10 + d * 20
           /\ W_LIVENESS + W_FACE + W_AUTH + W_DEEPFAKE = 100
           /\ \A s \in ScoreSteps :
                /\ Overall(l + s, f, a, d) >= oc
                /\ Overall(l, f + s, a, d) >= oc
                /\ Overall(l, f, a + s, d) >= oc
                /\ Overall(l, f, a, d + s) >= oc

C7_Witness ==
    /\ Returned
    /\ ~ShortCircuited
    /\ verdict.liveness_check.liveness_score = (5 * ONE) \div 6
    /\ verdict.face_match.confidence = Pct(75)
    /\ verdict.document_authenticity.authenticity_score = Pct(100)
    /\ verdict.deepfake_check.confidence = ONE \div 2

\* C8: the status is approved for every overall_confidence >= 75,
\* manual_review in [55, 75) and rejected below 55.
C8_CutPoints ==
    (Returned /\ ~ShortCircuited) =>
        LET oc == verdict.overall_confidence IN
        /\ verdict.status \in Statuses
        /\ verdict.status = "approved" <=> oc >= Pct(75)
        /\ verdict.status = "manual_review" <=> (oc >= Pct(55) /\ oc < Pct(75))
        /\ verdict.status = "rejected" <=> oc < Pct(55)

C8_Witness ==
    /\ Returned
    /\ ~ShortCircuited
    /\ verdict.overall_confidence = Pct(75)
    /\ verdict.status = "approved"

C8_ExactlyManualReview ==
    /\ Returned
    /\ ~ShortCircuited
    /\ verdict.overall_confidence = Pct(55)
    /\ verdict.status = "manual_review"

C8_JustBelowManualReview ==
    /\ Returned
    /\ ~ShortCircuited
    /\ verdict.overall_confidence < Pct(55)
    /\ verdict.overall_confidence > Pct(55) - ONE \div 100
    /\ verdict.status = "rejected"

\* C9: every verdict's overall_confidence lies in [0, 100].
C9_ConfidenceInRange ==
    Returned => InRange(verdict.overall_confidence, 0, Pct(100))

\* C10: match_faces never raises; without a face in the document or in the
\* selfie, or when the face library fails, it returns matched = false and
\* confidence = 0 with an error text ('Face not detected ...' when a face
\* is absent and the library worked).
NoFaceInOne ==
    face_locations(id_document) = <<>> \/ face_locations(selfie) = <<>>

C10_MatchFacesNeverRaises ==
    "face_match" \in DOMAIN results =>
        LET fm == results.face_match IN
        /\ fm # DefaultFaceMatch
        /\ NoFaceInOne =>
              /\ "error" \in DOMAIN fm
              /\ fm.error \in {"Face not detected in one or both images",
                               "exception"}
        /\ "error" \in DOMAIN fm => (~fm.matched /\ fm.confidence = 0)
        /\ "error" \notin DOMAIN fm => ~NoFaceInOne

C10_Witness ==
    /\ "face_match" \in DOMAIN results
    /\ face_locations(id_document) = <<>>
    /\ face_locations(selfie) # <<>>
    /\ results.face_match.error = "Face not detected in one or both images"

\* C11: when both faces are found, match_faces returns matched =
\* (distance <= tolerance) and confidence = (1 - distance) * 100, and that
\* confidence lies in [0, 100] for every distance the library reports.
BothFacesFound ==
    "face_match" \in DOMAIN results /\ "distance" \in DOMAIN results.face_match

C11_MatchConfidence ==
    BothFacesFound =>
        LET fm == results.face_match IN
        /\ fm.matched = (fm.distance <= FACE_MATCH_TOLERANCE)
        /\ fm.confidence = (ONE - fm.distance) * 100
        /\ InRange(fm.confidence, 0, Pct(100))

\* C12: when the deepfake model is not loaded, detect returns is_real =
\* true, confidence = 0.5, model_available = false and never raises; the
\* deepfake record never makes _make_decision raise, and in every verdict of
\* the full pipeline the deepfake term is 0.5 * 100 * 0.20 = 10 points.
NeutralDeepfake ==
    [is_real |-> TRUE, confidence |-> ONE \div 2, model_available |-> FALSE,
     nulls |-> {}]

C12_UnavailableIsNeutral ==
    (~available /\ "deepfake_check" \in DOMAIN results) =>
        /\ results.deepfake_check = NeutralDeepfake
        /\ pc = "raised" =>
              \E k \in FourChecks \ {"deepfake_check"} :
                  results[k] \in {DefaultLiveness, DefaultDocument,
                                  DefaultFaceMatch}
        /\ Returned =>
              LET l == verdict.liveness_check.liveness_score * 100
                  f == verdict.face_match.confidence
                  a == verdict.document_authenticity.authenticity_score
              IN /\ verdict.deepfake_check = NeutralDeepfake
                 /\ verdict.status \in Statuses
                 /\ verdict.overall_confidence * 100
                      - (l * W_LIVENESS + f * W_FACE + a * W_AUTH)
                    = Pct(10) * 100

C12_Witness ==
    /\ ~available
    /\ pc = "returned"
    /\ ~ShortCircuited
    /\ verdict.deepfake_check = NeutralDeepfake
    /\ verdict.face_match.confidence = Pct(75)

\* C13: LivenessDetector.check on an image in which the library finds no
\* face returns is_live = false and liveness_score = 0.0 and has run none
\* of the six sub-checks.
LivenessCalled == args.op = "check" /\ args.lib_ok

C13_NoFaceNoChecks ==
    (LivenessCalled /\ face_locations(args.image) = <<>>) =>
        LET r == results.liveness_check IN
        /\ r.is_live = FALSE
        /\ r.liveness_score = 0
        /\ DOMAIN r.checks = {}

C13_Witness ==
    /\ LivenessCalled
    /\ face_locations(args.image) = <<>>
    /\ \A n \in DOMAIN args.outcomes : args.outcomes[n] = "pass"
    /\ results.liveness_check.error = "No face detected"

\* C14: with a face, liveness_score is exactly (number of sub-checks whose
\* passed is true) / 6 for every combination of sub-check outcomes; a
\* sub-check that raised is recorded with passed = false and an error and
\* stays in the denominator; checks_passed is k/6.
SixChecks ==
    {PixelChecks[i] : i \in 1..Len(PixelChecks)} \cup {"_check_face_proportions"}

WithFace == LivenessCalled /\ face_locations(args.image) # <<>>

C14_ScoreIsPassedOverSix ==
    WithFace =>
        LET r == results.liveness_check
            k == Cardinality({n \in DOMAIN r.checks : r.checks[n].passed})
        IN /\ DOMAIN r.checks = SixChecks
           /\ r.liveness_score * 6 = k * ONE
           /\ r.checks_passed = <<k, 6>>
           /\ \A n \in DOMAIN args.outcomes :
                /\ r.checks[n].passed = (args.outcomes[n] = "pass")
                /\ args.outcomes[n] = "raise" =>
                      "error" \in DOMAIN r.checks[n]

C14_Witness ==
    /\ WithFace
    /\ args.outcomes["_check_blur"] = "raise"
    /\ args.outcomes["_estimate_depth_cues"] = "fail"
    /\ results.liveness_check.checks_passed = <<3, 6>>

\* C15: for the configured threshold t and the score s, is_live is true
\* exactly when s >= t, and confidence is 'high' when s > 0.8, 'medium' when
\* t < s <= 0.8 and 'low' otherwise.
C15_BandsFollowThreshold ==
    WithFace =>
        LET r == results.liveness_check
            s == r.liveness_score
            t == settings.LIVENESS_SCORE_MIN
        IN /\ r.is_live = (s >= t)
           /\ r.confidence = IF s * 10 > 8 * ONE THEN "high"
                             ELSE IF s > t THEN "medium" ELSE "low"

\* C16: the face-box proportions sub-check is recorded as passed exactly
\* when the width and the height of the face region used both lie inside
\* (face_size_min, face_size_max); so 6/6 is reported for a well-sized face
\* whose other five sub-checks pass.
WellSized(box) ==
    /\ face_size_min < box[2] - box[4]
    /\ box[2] - box[4] < face_size_max
    /\ face_size_min < box[3] - box[1]
    /\ box[3] - box[1] < face_size_max

C16_ProportionsRecorded ==
    WithFace =>
        LET r == results.liveness_check
            used == face_locations(args.image)[1]
        IN /\ r.checks["_check_face_proportions"].passed = WellSized(used)
           /\ (WellSized(used)
               /\ \A n \in DOMAIN args.outcomes : args.outcomes[n] = "pass")
              => r.checks_passed = <<6, 6>>

\* C17: check_authenticity scores passed / total * 100 over exactly the
\* checks that executed (tampering always, data consistency when structured
\* data is given, expiry when it holds an expiry date); the score lies in
\* [0, 100], is_authentic = (score >= min_score) and checks_passed is
\* passed/total.
AuthenticityCalled == args.op = "check_authenticity"

Executed ==
    {"tampering"}
    \cup (IF DOMAIN args.structured_data # {}
          THEN {"data_consistency"} ELSE {})
    \cup (IF "date_expiration" \in DOMAIN args.structured_data
          THEN {"expiry_validation"} ELSE {})

C17_ScoreOverExecuted ==
    AuthenticityCalled =>
        LET r == results.document_authenticity
            passed == Cardinality({n \in DOMAIN r.checks : r.checks[n].passed})
            total == Cardinality(Executed)
        IN /\ DOMAIN r.checks = Executed
           /\ r.checks["tampering"].passed = (args.tamper = "clean")
           /\ r.authenticity_score * total = passed * Pct(100)
           /\ InRange(r.authenticity_score, 0, Pct(100))
           /\ r.is_authentic =
                (r.authenticity_score >= settings.AUTHENTICITY_SCORE_MIN)
           /\ r.checks_passed = <<passed, total>>

C17_Witness ==
    /\ AuthenticityCalled
    /\ args.tamper = "clean"
    /\ "date_naissance" \notin DOMAIN args.structured_data
    /\ "date_expiration" \in DOMAIN args.structured_data
    /\ results.document_authenticity.checks_passed = <<2, 3>>
    /\ ~results.document_authenticity.checks["expiry_validation"].passed

\* C18: the confidence of detect_document_structure is the sum of the
\* weights 0.30 / 0.25 / 0.20 / 0.15 / 0.10 of exactly the sub-detectors
\* whose verdict is true, lies in [0, 1] for each of the 32 combinations,
\* and has_document = passed = (confidence >= min_confidence).
StructureCalled == args.op = "detect_document_structure"

Share(name, percent) == IF name \in args.detected THEN percent ELSE 0

C18_ConfidenceIsWeightSum ==
    StructureCalled =>
        LET r == results.document_structure IN
        /\ r.confidence * 100 =
             ONE * (Share("card_edges", 30) + Share("text_regions", 25)
                    + Share("security_features", 20)
                    + Share("photo_region", 15) + Share("proportions", 10))
        /\ InRange(r.confidence, 0, ONE)
        /\ r.has_document = (r.confidence * 100 >= 25 * ONE)
        /\ r.passed = r.has_document

C18_Witness ==
    /\ StructureCalled
    /\ Cardinality(args.detected) = 5
    /\ results.document_structure.confidence = ONE
    /\ results.document_structure.passed

C18_ExactlyAtMinimum ==
    /\ StructureCalled
    /\ args.detected = {"photo_region", "proportions"}
    /\ results.document_structure.has_document

\* C19: a fault inside a fail-open gate does not reject: a similarity
\* record with an error has is_duplicate = false and passed = true and the
\* structure gate runs next; a face-only record with an error, or with no
\* face found, has is_just_face = false and the liveness check runs next.
SimilarityFault == "error" \in DOMAIN similarity_check

FaceOnlyFault ==
    \/ "error" \in DOMAIN face_only_check
    \/ (face_only_check # Unset /\ face_locations(id_document) = <<>>)

RanNext(i, op, at) ==
    \/ pc = at
    \/ (Len(calls) >= i /\ calls[i] = op)

C19_FailOpenGates ==
    /\ SimilarityFault =>
          /\ ~similarity_check.is_duplicate
          /\ similarity_check.passed
          /\ RanNext(2, "detect_document_structure", "structure")
    /\ FaceOnlyFault =>
          /\ ~face_only_check.is_just_face
          /\ RanNext(4, "check", "liveness")
    /\ (Returned /\ verdict.status = "rejected" /\ ShortCircuited) =>
          \/ (IsDuplicate /\ ~SimilarityFault)
          \/ NoDocument
          \/ (JustFace /\ ~FaceOnlyFault)

C19_Witness ==
    /\ SimilarityFault
    /\ "error" \in DOMAIN face_only_check
    /\ Len(calls) >= 4
    /\ calls[4] = "check"

C19_NoFaceWitness ==
    /\ "reason" \in DOMAIN face_only_check
    /\ face_locations(id_document) = <<>>
    /\ pc = "liveness"

\* C20: similarity_score is 0.40 ssim + 0.25 histogram + 0.20 pixel
\* similarity + 0.15 hash similarity, is_duplicate = (score >= threshold)
\* and passed = not is_duplicate; an image compared with itself has every
\* estimator at 1, score 1.0 and is_duplicate true whatever the threshold
\* (at most 1.0) is.
SimilarityCalled == args.op = "are_images_too_similar" /\ args.lib_ok

C20_WeightedSimilarity ==
    SimilarityCalled =>
        LET r == results.similarity_check
            d == r.details
        IN /\ d[3] = PixelSimilarity(args.image1, args.image2)
           /\ d[4] = HashSimilarity(args.image1, args.image2)
           /\ r.similarity_score =
                (d[1] * 40 + d[2] * 25 + d[3] * 20 + d[4] * 15) \div 100
           /\ r.is_duplicate =
                (r.similarity_score >= settings.similarity_threshold)
           /\ r.passed = ~r.is_duplicate
           /\ args.image1 = args.image2 =>
                /\ d = <<ONE, ONE, ONE, ONE>>
                /\ r.similarity_score = ONE
                /\ settings.similarity_threshold <= ONE => r.is_duplicate

C20_Witness ==
    /\ SimilarityCalled
    /\ args.image1 = args.image2
    /\ settings.similarity_threshold = ONE
    /\ results.similarity_check.is_duplicate

C20_DifferentImages ==
    /\ SimilarityCalled
    /\ args.image1 # args.image2
    /\ results.similarity_check.details[4] < ONE
    /\ results.similarity_check.passed

\* C22: when no face is detectable in the selfie, every verdict
\* verify_identity returns is rejected with liveness_check.is_live = false,
\* whatever the document, the deepfake check and the authenticity check
\* give; and verify_identity does return unless the face library itself
\* failed in the liveness check.
NoFaceInSelfie == face_locations(selfie) = <<>>

C22_NoFaceRejected ==
    NoFaceInSelfie =>
        /\ Returned =>
              /\ verdict.status = "rejected"
              /\ verdict.liveness_check.is_live = FALSE
        /\ pc = "raised" => results.liveness_check = DefaultLiveness

C22_Witness ==
    /\ NoFaceInSelfie
    /\ pc = "returned"
    /\ ~ShortCircuited
    /\ face_locations(id_document) # <<>>
    /\ verdict.deepfake_check.confidence = ONE
    /\ verdict.deepfake_check.is_real
    /\ verdict.document_authenticity.authenticity_score = Pct(100)
    /\ verdict.status = "rejected"

\* C23: a verdict whose face_match.matched is false is never approved,
\* whatever the liveness, deepfake and authenticity scores are.
C23_UnmatchedNeverApproved ==
    (Returned /\ ~verdict.face_match.matched) =>
        verdict.status \in {"rejected", "manual_review"}

C23_Witness ==
    /\ pc = "returned"
    /\ ~ShortCircuited
    /\ "distance" \in DOMAIN verdict.face_match
    /\ ~verdict.face_match.matched
    /\ verdict.overall_confidence > Pct(70)
    /\ verdict.status = "manual_review"

\* C29: a selfie the deepfake detector classifies as fake (is_real =
\* false) is never approved, whatever confidence the classifier reports and
\* whatever the other three scores are.
ClassifiedFake ==
    /\ "deepfake_check" \in DOMAIN results
    /\ "label" \in DOMAIN results.deepfake_check
    /\ ~results.deepfake_check.is_real

C29_FakeNeverApproved ==
    (Returned /\ ClassifiedFake) => verdict.status # "approved"

\* C30: no verdict has the status 'error': every verdict's status is one of
\* approved, manual_review, rejected; and the status of a verdict of the
\* full pipeline is determined by the four scores alone: it is the status
\* _make_decision gives for any other values of is_live, matched,
\* is_authentic and is_real.
WithVerdicts(res, live, matched, authentic, real) ==
    [res EXCEPT !.liveness_check.is_live = live,
                !.face_match.matched = matched,
                !.document_authenticity.is_authentic = authentic,
                !.deepfake_check.is_real = real]

C25_PassedCarriesScore ==
    /\ WithFace =>
          \A n \in DOMAIN results.liveness_check.checks :
              results.liveness_check.checks[n].scores # {}
    /\ AuthenticityCalled =>
          \A n \in DOMAIN results.document_authenticity.checks :
              results.document_authenticity.checks[n].scores # {}

\* C26: within one request the operations are invoked in the order
\* similarity, structure, face-only, liveness, deepfake, authenticity, face
\* match, each at most once; a stage is reached only when the stages
\* before it have run and none short-circuited; the decision is taken after
\* all seven; a check that failed is not called again.
StageOrder ==
    <<"are_images_too_similar", "detect_document_structure", "is_just_a_face",
      "check", "detect", "check_authenticity", "match_faces">>

StagePc ==
    <<"similarity", "structure", "face_only", "liveness", "deepfake",
      "document", "face_match", "decision">>

C26_FixedOrder ==
    /\ Len(calls) <= Len(StageOrder)
    /\ \A i \in 1..Len(calls) : calls[i] = StageOrder[i]
    /\ \A i \in 1..Len(StagePc) :
          pc = StagePc[i] =>
              /\ Len(calls) = i - 1
              /\ ~ShortCircuited
    /\ IsDuplicate => Len(calls) = 1
    /\ (~IsDuplicate /\ NoDocument) => Len(calls) = 2
    /\ (~IsDuplicate /\ ~NoDocument /\ JustFace) => Len(calls) = 3
    /\ (pc = "raised" \/ (Returned /\ ~ShortCircuited)) =>
          Len(calls) = Len(StageOrder)

C26_Witness ==
    /\ pc = "raised"
    /\ calls = StageOrder
    /\ results.liveness_check = DefaultLiveness

\* C27: once the post-gate stage has begun, each of the four checks is
\* invoked and leaves its record under its own key, also when an earlier
\* check raised; a record once written is not overwritten by a later
\* check.
ChecksDone(n) ==
    /\ \A i \in 1..n :
          /\ Len(calls) >= 3 + i
          /\ calls[3 + i] = StageOrder[3 + i]
    /\ DOMAIN results \cap FourChecks =
          {<<"liveness_check", "deepfake_check", "document_authenticity",
             "face_match">>[i] : i \in 1..n}
    /\ \A k \in DOMAIN results \cap FourChecks :
          VerdictKey(k) \in DOMAIN results[k]

RecordsKept ==
    \A k \in DOMAIN results \cap FourChecks :
        k \in DOMAIN results' => results'[k] = results[k]

C27_AllFourChecksRun ==
    /\ [](/\ pc = "deepfake" => ChecksDone(1)
          /\ pc = "document" => ChecksDone(2)
          /\ pc = "face_match" => ChecksDone(3)
          /\ (pc \in {"decision", "raised"}
              \/ (Returned /\ ~ShortCircuited)) => ChecksDone(4))
    /\ [][RecordsKept]_vars

C27_Witness ==
    /\ pc = "decision"
    /\ results.liveness_check = DefaultLiveness
    /\ "label" \in DOMAIN results.deepfake_check
    /\ results.document_authenticity.is_authentic
    /\ results.face_match.matched

\* C28: when the face library lists several regions for an image, the
\* region the liveness check works on and the region match_faces encodes
\* for each image is the one of largest area, wherever it stands in the
\* library's list.
LivenessRan ==
    /\ "liveness_check" \in DOMAIN results
    /\ "checks_passed" \in DOMAIN results.liveness_check

C28_LargestFaceUsed ==
    /\ LivenessRan =>
          liveness_face_location(selfie) = LargestFace(face_locations(selfie))
    /\ BothFacesFound =>
          /\ encoded_face(id_document)
               = LargestFace(face_locations(id_document))
          /\ encoded_face(selfie) = LargestFace(face_locations(selfie))

\* C24: a request to /api/v1/verify that carries no X-API-Key header, or a
\* key that is not among the configured valid keys, is answered 403 and
\* reaches neither the rate limiter's admission nor the pipeline.
Unauthorised ==
    \/ api_key = NoKey
    \/ api_key \notin ParseKeys(VALID_API_KEYS)

C24_UnauthorisedForbidden ==
    (Unauthorised /\ pc # "auth") =>
        /\ pc = "responded"
        /\ http = 403
        /\ client_id = NoClient
        /\ calls = <<>>

\* C21: at every instant at most one image-analysis call is executing,
\* for any number of concurrently served verify_identity requests, those
\* that arrive before the VerificationService and its single-worker
\* executor exist included.
Running == { r \in DOMAIN requests : requests[r].pc = "running" }

C21_OneAnalysisAtATime == Cardinality(Running) <= 1

====
